---- MODULE Spec2Model ----
(***************************************************************************)
(* Model of .github/scripts/benchmark_regression_gate.py: main() loads a   *)
(* results document and a baseline document, classifies every benchmark    *)
(* entry against the baseline and a threshold, prints a report and returns *)
(* the exit status.                                                        *)
(*                                                                         *)
(* Numbers.  Means and baseline means are integers (nanoseconds) and the   *)
(* threshold is a whole number of percent: regression_threshold = t stands *)
(* for the float t/100.  `change` is kept as an exact fraction num/den and *)
(* compared by cross-multiplication.  On the values used here the IEEE     *)
(* double results of (mean - baseline_mean) / baseline_mean and of parsing *)
(* the threshold compare exactly as the fractions do (both sides are the   *)
(* correctly rounded doubles of rationals that are either equal or far     *)
(* more than one ulp apart).  The percentages printed with ":.1f" are      *)
(* computed as the doubles are: see FloatErrorSign.                        *)
(*                                                                         *)
(* The files on disk are the environment, fixed in Init; the command line  *)
(* is chosen when parse_args() runs.  Only standard output is kept in      *)
(* `out`; usage messages and tracebacks go to standard error.              *)
(***************************************************************************)
EXTENDS Integers, Sequences, FiniteSets, TLC

VARIABLES
    results_file,          \* the file at args.results: missing, malformed or a document
    baseline_file,         \* the file at args.baseline
    pc,                    \* position in main()
    regression_threshold,  \* args.threshold, in percent
    results,               \* the parsed results document
    baseline,              \* the baseline table in use
    baseline_opened,       \* whether open(baseline_file) was executed
    benchmarks,            \* the list the for loop iterates
    idx,                   \* 1-based position of the next item of the loop
    regressions,           \* the three message lists
    improvements,
    new_benchmarks,
    classified,            \* per processed item, the branch of lines 59-73 it took
    out,                   \* lines printed to standard output
    traceback,             \* the uncaught exception and the line raising it, if any
    exit_code              \* process exit status, -1 while running

vars == <<results_file, baseline_file, pc, regression_threshold, results, baseline,
          baseline_opened, benchmarks, idx, regressions, improvements,
          new_benchmarks, classified, out, traceback, exit_code>>

----------------------------------------------------------------------------
\* Bounds and input domains

MaxEntries == 3

MethodNames == {"foo", "bar"}

Means == {90, 105, 110, 150}

Thresholds == {-10, 0, 10}

\* JSON values that may sit under a key: a number, null, a non-numeric string,
\* or nothing at all (the key is absent).
Num(n) == [t |-> "num", n |-> n]
NullV == [t |-> "null", n |-> 0]
StrV == [t |-> "str", n |-> 0]
AbsentV == [t |-> "absent", n |-> 0]

AbsentKey == "<absent>"
PyNone == "<None>"

NonObjectItem == [obj |-> FALSE, method |-> AbsentKey, mean |-> AbsentV]

Item(method, mean) == [obj |-> TRUE, method |-> method, mean |-> mean]

\* Every kind of mean for "foo"; a few for "bar" and for entries without a
\* method key; and an entry that is not an object.  103 against a baseline
\* of 80 is a change of 28.75%, halfway between two printed tenths.
ItemValues ==
    {NonObjectItem}
    \cup {Item("foo", v) : v \in {AbsentV, NullV, StrV} \cup {Num(n) : n \in Means}}
    \cup {Item("bar", v) : v \in {AbsentV, Num(103)}}
    \cup {Item(AbsentKey, v) : v \in {NullV, Num(90)}}

SeqsUpTo(S, n) == UNION {[1..k -> S] : k \in 0..n}

\* A file: state is "missing", "malformed" (json.load raises) or "ok".
\* A results document: top is "object" or "other" (an array, a number, ...);
\* bench says what sits under "benchmarks": "absent", "null" or "list".
ResultsDoc(top, bench, items) == [top |-> top, bench |-> bench, items |-> items]
NoDoc == ResultsDoc("object", "absent", <<>>)

ResultsFiles ==
    {[state |-> "missing", doc |-> NoDoc], [state |-> "malformed", doc |-> NoDoc]}
    \cup {[state |-> "ok", doc |-> ResultsDoc("other", "absent", <<>>)]}
    \cup {[state |-> "ok", doc |-> ResultsDoc("object", b, <<>>)] : b \in {"absent", "null"}}
    \cup {[state |-> "ok", doc |-> ResultsDoc("object", "list", s)] :
             s \in SeqsUpTo(ItemValues, MaxEntries)}

\* A baseline document: top is "object" (tbl maps method names to values) or
\* "number" (the document is a bare JSON number).
EmptyTable == [m \in {} |-> Num(0)]
BaselineDoc(top, tbl) == [top |-> top, tbl |-> tbl]

BaselineTables ==
    { EmptyTable,
      [m \in {"foo"} |-> Num(100)],
      [m \in {"foo"} |-> Num(0)],
      [m \in {"foo"} |-> StrV],
      [m \in {"bar"} |-> Num(80)],
      [m \in {"foo", "bar"} |-> IF m = "foo" THEN Num(100) ELSE Num(0)] }

BaselineFiles ==
    {[state |-> "missing", doc |-> BaselineDoc("object", EmptyTable)],
     [state |-> "malformed", doc |-> BaselineDoc("object", EmptyTable)],
     [state |-> "ok", doc |-> BaselineDoc("number", EmptyTable)]}
    \cup {[state |-> "ok", doc |-> BaselineDoc("object", t)] : t \in BaselineTables}

----------------------------------------------------------------------------
\* Arithmetic on fractions num/den with den > 0

Abs(n) == IF n < 0 THEN -n ELSE n

Frac(n, d) == [num |-> n, den |-> d]

\* a > b
RatGt(a, b) == a.num * b.den > b.num * a.den

\* n/d rounded to the nearest integer, ties to even (d > 0): the rounding of
\* the format specs ":.1f" and ":.0f" on an exactly represented value.
RoundHalfEven(n, d) ==
    LET q == n \div d
        r == n % d
    IN  IF 2 * r < d THEN q
        ELSE IF 2 * r > d THEN q + 1
        ELSE IF q % 2 = 0 THEN q ELSE q + 1

\* The smallest A = a * 2^j with A >= D, and the largest D' = D * 2^j with
\* D' <= A: together they bring a/d into [1, 2) without changing its bits.
RECURSIVE ScaleNum(_, _)
ScaleNum(A, D) == IF A < D THEN ScaleNum(2 * A, D) ELSE A

RECURSIVE ScaleDen(_, _)
ScaleDen(A, D) == IF A >= 2 * D THEN ScaleDen(A, 2 * D) ELSE D

\* 13 more bits of the binary expansion of a quotient with remainder r over
\* D (D < 2^18, so that r * 2^13 stays within 32 bits): the remainder left
DivBits13(r, D) == (r * 8192) % D

\* 52 more bits (4 times 13): the remainder left, and the last 8 bits
DivBits(r0, D) ==
    LET r39 == DivBits13(DivBits13(DivBits13(r0, D), D), D)
    IN  [r |-> (r39 * 8192) % D, low8 |-> ((r39 * 8192) \div D) % 256]

\* The sign of p - 100*A/D, for p the double the code computes as
\* (A / D) * 100 (D <= A < 2*D): the division is rounded to a 53-bit
\* mantissa M (ties to even) from the remainder r and the last 8 bits low8 of
\* its first 53 bits, then 100*M is rounded to 53 bits again.
\* Negative, zero or positive as the double lies below, on or above 100*A/D.
FloatErrorSign(A, D, r, low8) ==
    LET up1 == IF 2 * r > D \/ (2 * r = D /\ low8 % 2 = 1) THEN 1 ELSE 0
        m8 == (low8 + up1) % 256
        \* 100*M has 59 bits when A/D is below 1.28, else 60
        pow == IF 100 * A < 128 * D THEN 64 ELSE 128
        low == (100 * m8) % pow
        odd == ((100 * m8) \div pow) % 2 = 1
        up2 == IF 2 * low > pow \/ (2 * low = pow /\ odd) THEN 1 ELSE 0
    IN  D * (up2 * pow - low) - 100 * (r - up1 * D)

\* Whether ":.1f" prints q + 1 rather than q tenths when 1000*a/d lies exactly
\* halfway between them (a > 0, d > 0): the side of the tie the double
\* (a / d) * 100 fell on decides, and ties to even if it is on it.
TieRoundsUp(a, d, q) ==
    \E A \in {ScaleNum(a, d)} : \E D \in {ScaleDen(A, d)} :
        \E b \in {DivBits(A - D, D)} : \E s \in {FloatErrorSign(A, D, b.r, b.low8)} :
            s > 0 \/ (s = 0 /\ q % 2 = 1)

\* f"{(a/d)*100:.1f}" for a >= 0, d > 0, as a number of tenths of a percent:
\* the nearest tenth of the double
PctTenthsAbs(a, d) ==
    IF a = 0 \/ 2 * ((1000 * a) % d) # d THEN RoundHalfEven(1000 * a, d)
    ELSE IF TieRoundsUp(a, d, (1000 * a) \div d) THEN (1000 * a) \div d + 1
    ELSE (1000 * a) \div d

\* f"{x*100:.1f}" for the fraction x, as a signed number of tenths of a percent
PctTenths(x) ==
    IF x.num < 0 THEN - PctTenthsAbs(- x.num, x.den) ELSE PctTenthsAbs(x.num, x.den)

----------------------------------------------------------------------------
\* The loop body, lines 49-73

\* item.get("method"): the value, None when the key is absent
GetMethod(item) == IF item.method = AbsentKey THEN PyNone ELSE item.method

\* float(item.get("mean", 0)): exc is the exception float() raises, "" when none
ToFloat(v) ==
    CASE v.t = "absent" -> [exc |-> "", val |-> 0]
      [] v.t = "num"    -> [exc |-> "", val |-> v.n]
      [] v.t = "null"   -> [exc |-> "TypeError", val |-> 0]
      [] v.t = "str"    -> [exc |-> "ValueError", val |-> 0]

\* Faulty variant of ChangeOf: a zero baseline does not force the change to 0
ChangeOf_noguard(mean, baseline_mean) ==
    IF baseline_mean = 0
    THEN Frac(mean, 1)
    ELSE Frac((mean - baseline_mean) * (IF baseline_mean < 0 THEN -1 ELSE 1),
              Abs(baseline_mean))

\* lines 54-57: the change of mean against a numeric baseline_mean
ChangeOf(mean, baseline_mean) ==
    IF baseline_mean = 0
    THEN Frac(0, 1)
    ELSE Frac((mean - baseline_mean) * (IF baseline_mean < 0 THEN -1 ELSE 1),
              Abs(baseline_mean))

\* Faulty variant of ExceedsThreshold: >= in place of >
ExceedsThreshold_ge(change, threshold) == ~ RatGt(Frac(threshold, 100), change)

\* line 59: change > regression_threshold
ExceedsThreshold(change, threshold) == RatGt(change, Frac(threshold, 100))

\* Faulty variant of Classify: the branch of line 64 tests the threshold again
Classify_elifthreshold(change, threshold) ==
    IF ExceedsThreshold(change, threshold) THEN "Regression"
    ELSE IF RatGt(change, Frac(threshold, 100)) THEN "SlowerWithinThreshold"
    ELSE "Improvement"

\* lines 59-71: the branch taken
Classify(change, threshold) ==
    IF ExceedsThreshold(change, threshold) THEN "Regression"
    ELSE IF RatGt(change, Frac(0, 1)) THEN "SlowerWithinThreshold"
    ELSE "Improvement"

Msg(kind, method, pct, base, mean) ==
    [kind |-> kind, method |-> method, pct |-> pct, base |-> base, mean |-> mean]
NoMsg == Msg("", "", 0, 0, 0)

\* The message each branch formats
MessageFor(cat, method, change, baseline_mean, mean) ==
    CASE cat = "Regression" ->
            Msg("regression", method, PctTenths(change), baseline_mean, mean)
      [] cat = "SlowerWithinThreshold" ->
            Msg("slower (within threshold)", method, PctTenths(change), 0, 0)
      [] cat = "Improvement" ->
            Msg("faster (improvement)", method,
                PctTenths(Frac(Abs(change.num), change.den)), 0, 0)
      [] cat = "NewBenchmark" ->
            Msg("new benchmark", method, 0, 0, mean)

\* lines 43-45: the three lists
Buckets(r, i, n) == [regressions |-> r, improvements |-> i, new_benchmarks |-> n]

\* Faulty variant of AddMessage: a message already in the list is not added again
AddMessage_nodup(b, cat, msg) ==
    LET app(s) == IF \E k \in 1..Len(s) : s[k] = msg THEN s ELSE Append(s, msg)
    IN  CASE cat = "Regression" -> [b EXCEPT !.regressions = app(@)]
          [] cat \in {"SlowerWithinThreshold", "Improvement"} ->
                [b EXCEPT !.improvements = app(@)]
          [] cat = "NewBenchmark" -> [b EXCEPT !.new_benchmarks = app(@)]

\* lines 60, 65, 69, 73: the list each branch appends to
AddMessage(b, cat, msg) ==
    CASE cat = "Regression" -> [b EXCEPT !.regressions = Append(@, msg)]
      [] cat \in {"SlowerWithinThreshold", "Improvement"} ->
            [b EXCEPT !.improvements = Append(@, msg)]
      [] cat = "NewBenchmark" -> [b EXCEPT !.new_benchmarks = Append(@, msg)]

\* An uncaught exception: its type and the line of main() that raises it
Traceback(e, line) == [exc |-> e, line |-> line]
NoTraceback == Traceback("", 0)

\* One iteration on `item`: the exception it raises (NoTraceback when none),
\* and else the category and the message.
ProcessItem(item, tbl, threshold) ==
    LET method == GetMethod(item)
        f == ToFloat(item.mean)
        mean == f.val
        Raise(e, line) == [exc |-> Traceback(e, line), cat |-> "", msg |-> NoMsg]
    IN  IF ~ item.obj THEN Raise("AttributeError", 49)
        ELSE IF f.exc # "" THEN Raise(f.exc, 50)
        ELSE IF tbl.top # "object" THEN Raise("TypeError", 52)
        ELSE IF method \in DOMAIN tbl.tbl
        THEN LET bv == tbl.tbl[method]
             IN  IF bv.t # "num" THEN Raise("TypeError", 57)
                 ELSE LET change == ChangeOf(mean, bv.n)
                          cat == Classify(change, threshold)
                      IN  [exc |-> NoTraceback, cat |-> cat,
                           msg |-> MessageFor(cat, method, change, bv.n, mean)]
        ELSE [exc |-> NoTraceback, cat |-> "NewBenchmark",
              msg |-> MessageFor("NewBenchmark", method, Frac(0, 1), 0, mean)]

----------------------------------------------------------------------------
\* The report, lines 75-99

Line(kind, msg) == [kind |-> kind, msg |-> msg]
Text(kind) == Line(kind, NoMsg)

RECURSIVE MsgLines(_)
MsgLines(s) == IF s = <<>> THEN <<>> ELSE <<Line("msg", Head(s))>> \o MsgLines(Tail(s))

\* Faulty variant of ReportLines: the new-benchmark section comes first
ReportLines_newfirst(regs, imps, news, threshold) ==
    <<Text("rule"), Text("title"), Text("rule")>>
    \o (IF news # <<>> THEN <<Text("hdr_new")>> \o MsgLines(news) ELSE <<>>)
    \o (IF imps # <<>> THEN <<Text("hdr_within")>> \o MsgLines(imps) ELSE <<>>)
    \o (IF regs # <<>>
        THEN <<Line("hdr_regress", Msg("", "", threshold, 0, 0))>> \o MsgLines(regs)
             \o <<Text("rule")>>
        ELSE <<Text("all_within"), Text("rule")>>)

\* lines 76-98: the lines printed, in order
ReportLines(regs, imps, news, threshold) ==
    <<Text("rule"), Text("title"), Text("rule")>>
    \o (IF imps # <<>> THEN <<Text("hdr_within")>> \o MsgLines(imps) ELSE <<>>)
    \o (IF news # <<>> THEN <<Text("hdr_new")>> \o MsgLines(news) ELSE <<>>)
    \o (IF regs # <<>>
        THEN <<Line("hdr_regress", Msg("", "", threshold, 0, 0))>> \o MsgLines(regs)
             \o <<Text("rule")>>
        ELSE <<Text("all_within"), Text("rule")>>)

\* lines 90-99: the value main() returns after the report
ReportStatus(regs) == IF regs # <<>> THEN 1 ELSE 0

----------------------------------------------------------------------------
\* The state machine

Init ==
    /\ results_file \in ResultsFiles
    /\ baseline_file \in BaselineFiles
    /\ pc = "Start"
    /\ regression_threshold = 10
    /\ results = NoDoc
    /\ baseline = BaselineDoc("object", EmptyTable)
    /\ baseline_opened = FALSE
    /\ benchmarks = <<>>
    /\ idx = 0
    /\ regressions = <<>>
    /\ improvements = <<>>
    /\ new_benchmarks = <<>>
    /\ classified = <<>>
    /\ out = <<>>
    /\ traceback = NoTraceback
    /\ exit_code = -1

\* An exception nothing catches: the interpreter prints the traceback and
\* sys.exit(main()) of line 102 is never reached; the process ends with status 1.
Crash(tb) ==
    /\ traceback' = tb
    /\ exit_code' = 1
    /\ pc' = "Crashed"

\* lines 13-21.  The command line is accepted, and the threshold is whatever
\* float the caller gave; or it is rejected (a missing --results, a threshold
\* that is no float, an unknown flag) and parser.error() prints the usage on
\* standard error and exits with status 2; or it asks for help with -h/--help,
\* the help strings are formatted with %, and "default 10%)" of line 16 is
\* no valid format: ValueError at line 17, uncaught.
ParseArgs ==
    /\ pc = "Start"
    /\ \/ /\ \E t \in Thresholds : regression_threshold' = t
          /\ pc' = "Loading"
          /\ UNCHANGED <<traceback, exit_code>>
       \/ /\ pc' = "Usage"
          /\ exit_code' = 2
          /\ UNCHANGED <<regression_threshold, traceback>>
       \/ /\ Crash(Traceback("ValueError", 17))
          /\ UNCHANGED regression_threshold
    /\ UNCHANGED <<results_file, baseline_file, results, baseline, baseline_opened,
                   benchmarks, idx, regressions, improvements, new_benchmarks,
                   classified, out>>

\* Faulty variant of LoadResults: `return 1` of lines 25 and 32 is left out
LoadResults_noreturn ==
    /\ pc = "Loading"
    /\ IF results_file.state = "missing"
       THEN /\ out' = Append(out, Text("results file not found"))
            /\ UNCHANGED results
       ELSE IF results_file.state = "malformed"
       THEN /\ out' = Append(out, Text("failed to load results"))
            /\ UNCHANGED results
       ELSE /\ results' = results_file.doc
            /\ UNCHANGED out
    /\ pc' = "Loaded"
    /\ UNCHANGED <<results_file, baseline_file, regression_threshold, baseline,
                   baseline_opened, benchmarks, idx, regressions, improvements,
                   new_benchmarks, classified, traceback, exit_code>>

\* lines 23-32
LoadResults ==
    /\ pc = "Loading"
    /\ IF results_file.state = "missing"
       THEN /\ out' = Append(out, Text("results file not found"))
            /\ exit_code' = 1
            /\ pc' = "Fatal"
            /\ UNCHANGED results
       ELSE IF results_file.state = "malformed"
       THEN /\ out' = Append(out, Text("failed to load results"))
            /\ exit_code' = 1
            /\ pc' = "Fatal"
            /\ UNCHANGED results
       ELSE /\ results' = results_file.doc
            /\ pc' = "Loaded"
            /\ UNCHANGED <<out, exit_code>>
    /\ UNCHANGED <<results_file, baseline_file, regression_threshold, baseline,
                   baseline_opened, benchmarks, idx, regressions, improvements,
                   new_benchmarks, classified, traceback>>

\* lines 34-45
LoadBaseline ==
    /\ pc = "Loaded"
    /\ baseline_opened' = (baseline_file.state # "missing")
    /\ IF baseline_file.state = "ok"
       THEN /\ baseline' = baseline_file.doc
            /\ UNCHANGED out
       ELSE IF baseline_file.state = "malformed"
       THEN /\ baseline' = BaselineDoc("object", EmptyTable)
            /\ out' = Append(out, Text("warning: could not load baseline"))
       ELSE /\ baseline' = BaselineDoc("object", EmptyTable)
            /\ UNCHANGED out
    /\ regressions' = <<>>
    /\ improvements' = <<>>
    /\ new_benchmarks' = <<>>
    /\ pc' = "Iterate"
    /\ UNCHANGED <<results_file, baseline_file, regression_threshold, results,
                   benchmarks, idx, classified, traceback, exit_code>>

\* line 48: results.get("benchmarks", []) and the start of the iteration
GetBenchmarks ==
    /\ pc = "Iterate"
    /\ IF results.top # "object"
       THEN Crash(Traceback("AttributeError", 48)) /\ UNCHANGED <<benchmarks, idx>>
       ELSE IF results.bench = "null"
       THEN Crash(Traceback("TypeError", 48)) /\ UNCHANGED <<benchmarks, idx>>
       ELSE /\ benchmarks' = (IF results.bench = "absent" THEN <<>> ELSE results.items)
            /\ idx' = 1
            /\ pc' = "Classifying"
            /\ UNCHANGED <<traceback, exit_code>>
    /\ UNCHANGED <<results_file, baseline_file, regression_threshold, results,
                   baseline, baseline_opened, regressions, improvements,
                   new_benchmarks, classified, out>>

\* lines 48-73: one iteration of the loop
ClassifyNext ==
    /\ pc = "Classifying"
    /\ idx <= Len(benchmarks)
    /\ LET r == ProcessItem(benchmarks[idx], baseline, regression_threshold)
       IN  IF r.exc # NoTraceback
           THEN /\ Crash(r.exc)
                /\ UNCHANGED <<idx, regressions, improvements, new_benchmarks,
                               classified>>
           ELSE LET b == AddMessage(Buckets(regressions, improvements, new_benchmarks),
                                    r.cat, r.msg)
                IN  /\ regressions' = b.regressions
                    /\ improvements' = b.improvements
                    /\ new_benchmarks' = b.new_benchmarks
                    /\ classified' = Append(classified, r.cat)
                    /\ idx' = idx + 1
                    /\ UNCHANGED <<pc, traceback, exit_code>>
    /\ UNCHANGED <<results_file, baseline_file, regression_threshold, results,
                   baseline, baseline_opened, benchmarks, out>>

\* line 48: the list is exhausted
EndLoop ==
    /\ pc = "Classifying"
    /\ idx > Len(benchmarks)
    /\ pc' = "Reporting"
    /\ UNCHANGED <<results_file, baseline_file, regression_threshold, results,
                   baseline, baseline_opened, benchmarks, idx, regressions,
                   improvements, new_benchmarks, classified, out, traceback,
                   exit_code>>

\* lines 75-99
Report ==
    /\ pc = "Reporting"
    /\ out' = out \o ReportLines(regressions, improvements, new_benchmarks,
                                 regression_threshold)
    /\ exit_code' = ReportStatus(regressions)
    /\ pc' = (IF ReportStatus(regressions) = 1 THEN "Fail" ELSE "Success")
    /\ UNCHANGED <<results_file, baseline_file, regression_threshold, results,
                   baseline, baseline_opened, benchmarks, idx, regressions,
                   improvements, new_benchmarks, classified, traceback>>

Next ==
    \/ ParseArgs
    \/ LoadResults
    \/ LoadBaseline
    \/ GetBenchmarks
    \/ ClassifyNext
    \/ EndLoop
    \/ Report

Spec == Init /\ [][Next]_vars

----------------------------------------------------------------------------
\* Vocabulary of the properties

Terminal == pc \in {"Usage", "Fatal", "Fail", "Success", "Crashed"}

\* parse_args() accepted the command line: the run reached Loading
Accepted == pc \notin {"Start", "Usage"} /\ traceback.line # 17

Reported == pc \in {"Fail", "Success"}

Processed == 1..Len(classified)

\* Entry k's method has a numeric entry in the baseline table
HasBaseline(k) ==
    /\ baseline.top = "object"
    /\ GetMethod(benchmarks[k]) \in DOMAIN baseline.tbl
    /\ baseline.tbl[GetMethod(benchmarks[k])].t = "num"

BaselineMean(k) == baseline.tbl[GetMethod(benchmarks[k])].n

MeanAt(k) == ToFloat(benchmarks[k].mean).val

SomeRegression == \E k \in Processed : classified[k] = "Regression"

CountOf(cats) == Cardinality({k \in Processed : classified[k] \in cats})

WithinCats == {"SlowerWithinThreshold", "Improvement"}

\* The report proper: standard output after the baseline warning, if any
Rep == SubSeq(out, (IF baseline_file.state = "malformed" THEN 2 ELSE 1), Len(out))

FullReport ==
    /\ Len(Rep) >= 5
    /\ Rep[1] = Text("rule") /\ Rep[2] = Text("title") /\ Rep[3] = Text("rule")
    /\ Rep[Len(Rep)] = Text("rule")

\* Where a line of the report body belongs
Rank(l) ==
    CASE l.kind = "hdr_within" -> 1
      [] l.kind = "msg" /\ l.msg.kind \in {"slower (within threshold)",
                                            "faster (improvement)"} -> 2
      [] l.kind = "hdr_new" -> 3
      [] l.kind = "msg" /\ l.msg.kind = "new benchmark" -> 4
      [] l.kind = "hdr_regress" -> 5
      [] l.kind = "msg" /\ l.msg.kind = "regression" -> 6
      [] l.kind = "all_within" -> 7
      [] OTHER -> 0

BodyIdx == 4..(Len(Rep) - 1)

\* The message lines of rank r, in the order printed
Printed(r) ==
    LET Test(l) == Rank(l) = r
        sel == SelectSeq(SubSeq(Rep, 4, Len(Rep) - 1), Test)
    IN  [i \in 1..Len(sel) |-> sel[i].msg]

\* The messages of the entries classified in cats, in input order
Expected(cats) ==
    LET all == [k \in Processed |->
                   ProcessItem(benchmarks[k], baseline, regression_threshold)]
        Test(r) == r.cat \in cats
        sel == SelectSeq(all, Test)
    IN  [i \in 1..Len(sel) |-> sel[i].msg]

----------------------------------------------------------------------------
\* C1: in every finished run of main() the exit code is 1 if and only if the results
\* file is missing, the results file cannot be parsed, or some entry was
\* classified Regression; in every other run it is 0.
C1_ExitCodeIff ==
    Terminal =>
        LET cond == \/ results_file.state \in {"missing", "malformed"}
                    \/ SomeRegression
        IN  /\ (exit_code = 1) <=> cond
            /\ ~ cond => exit_code = 0

\* C2: an entry whose method has a baseline_mean > 0 is classified Regression
\* if and only if (mean - baseline_mean) / baseline_mean > threshold, strictly.
C2_RegressionIff ==
    \A k \in Processed :
        (HasBaseline(k) /\ BaselineMean(k) > 0) =>
            ((classified[k] = "Regression")
                <=> ((MeanAt(k) - BaselineMean(k)) * 100
                        > regression_threshold * BaselineMean(k)))

C2_Witness ==
    /\ Reported
    /\ \E k \in Processed :
          /\ HasBaseline(k) /\ BaselineMean(k) > 0
          /\ classified[k] = "Regression"
    /\ \E k \in Processed :
          /\ HasBaseline(k) /\ BaselineMean(k) > 0
          /\ classified[k] # "Regression"
          /\ MeanAt(k) > BaselineMean(k)

\* The computed change of entry k equals the threshold
ChangeIsThreshold(k) ==
    IF BaselineMean(k) = 0
    THEN regression_threshold = 0
    ELSE (MeanAt(k) - BaselineMean(k)) * 100 = regression_threshold * BaselineMean(k)

\* Entry k has a "slower (within threshold)" message
SlowerMessage(k) ==
    \E i \in 1..Len(improvements) :
        /\ improvements[i].kind = "slower (within threshold)"
        /\ improvements[i].method = GetMethod(benchmarks[k])
        /\ improvements[i].pct = 10 * regression_threshold

\* C3 as stated: for every threshold, an entry with a baseline entry whose
\* change equals the threshold is classified SlowerWithinThreshold.
C3_Original ==
    \A k \in Processed :
        (HasBaseline(k) /\ ChangeIsThreshold(k)) =>
            /\ classified[k] = "SlowerWithinThreshold"
            /\ SlowerMessage(k)

\* C3 amended: for every threshold greater than 0, an entry with a baseline
\* entry whose change equals the threshold is not a Regression and is
\* classified SlowerWithinThreshold, with a "slower (within threshold)" message.
C3_Amended ==
    regression_threshold > 0 =>
        \A k \in Processed :
            (HasBaseline(k) /\ ChangeIsThreshold(k)) =>
                /\ classified[k] = "SlowerWithinThreshold"
                /\ SlowerMessage(k)

C3_Witness ==
    /\ pc = "Success"
    /\ regression_threshold > 0
    /\ \E k \in Processed : HasBaseline(k) /\ ChangeIsThreshold(k)

\* C4 as stated: for every threshold, an entry whose baseline_mean is 0 is
\* never classified Regression, so a run ends with exit code 1 after the
\* report only if some entry with a nonzero baseline regressed.
C4_Original ==
    /\ \A k \in Processed :
          (HasBaseline(k) /\ BaselineMean(k) = 0) => classified[k] # "Regression"
    /\ pc = "Fail" =>
          \E k \in Processed : classified[k] = "Regression" /\ BaselineMean(k) # 0

\* C4 amended: for every threshold greater than or equal to 0, an entry whose
\* baseline_mean is 0 has change 0 (its message reads 0.0%), is never
\* classified Regression, and never causes exit code 1.
C4_Amended ==
    regression_threshold >= 0 =>
        /\ \A k \in Processed :
              (HasBaseline(k) /\ BaselineMean(k) = 0) =>
                  /\ classified[k] = "Improvement"
                  /\ \A i \in 1..Len(improvements) :
                        improvements[i].method = GetMethod(benchmarks[k])
                            => improvements[i].pct = 0
        /\ pc = "Fail" =>
              \E k \in Processed : classified[k] = "Regression" /\ BaselineMean(k) # 0

C4_Witness ==
    /\ pc = "Success"
    /\ regression_threshold >= 0
    /\ \E k \in Processed :
          HasBaseline(k) /\ BaselineMean(k) = 0 /\ MeanAt(k) > 0

\* C5: when the baseline file is missing or does not parse, a run whose
\* command line was accepted and whose results loaded ends with every entry classified NewBenchmark, the full
\* report and exit code 0; and so does every run in which no entry's method
\* has a baseline entry.
C5_EmptyBaselineAllNew ==
    (Terminal /\ Accepted /\ results_file.state = "ok"
        /\ \/ baseline_file.state \in {"missing", "malformed"}
           \/ /\ baseline_file.doc.top = "object"
              /\ \A k \in 1..Len(results_file.doc.items) :
                    GetMethod(results_file.doc.items[k])
                        \notin DOMAIN baseline_file.doc.tbl)
    => /\ Len(classified) = Len(results_file.doc.items)
       /\ \A k \in Processed : classified[k] = "NewBenchmark"
       /\ pc = "Success"
       /\ FullReport
       /\ exit_code = 0

\* C6: when the results file is missing or does not parse, a run that
\* reached Loading goes from there to Fatal with exit code 1: the baseline file is never opened, no
\* entry is classified, and the one diagnostic line is all that is printed.
C6_FatalLoad ==
    (results_file.state \in {"missing", "malformed"} /\ Accepted /\ pc # "Loading")
    => /\ pc = "Fatal"
       /\ exit_code = 1
       /\ ~ baseline_opened
       /\ classified = <<>>
       /\ regressions = <<>> /\ improvements = <<>> /\ new_benchmarks = <<>>
       /\ traceback = NoTraceback
       /\ out = <<Text(IF results_file.state = "missing"
                       THEN "results file not found"
                       ELSE "failed to load results")>>

C6_Witness ==
    /\ pc = "Fatal"
    /\ results_file.state = "malformed"
    /\ baseline_file.state = "ok"

\* C7: an entry without a method key is classified NewBenchmark under the
\* null method name, and an entry whose mean is absent, null or a
\* non-numeric string is processed with mean 0: line 50 never aborts the run.
C7_MissingFieldsTolerated ==
    /\ \A k \in Processed :
          benchmarks[k].method = AbsentKey => classified[k] = "NewBenchmark"
    /\ \A k \in Processed :
          benchmarks[k].mean.t \in {"absent", "null", "str"} => MeanAt(k) = 0
    /\ ~ (pc = "Crashed" /\ traceback.line = 50)

\* C8: every run ends with a full report and exit 0, a full report and exit
\* 1 (regressions), or a short diagnostic and exit 1; never with an uncaught
\* exception.
C8_ThreeOutcomes ==
    Terminal =>
        /\ traceback = NoTraceback
        /\ \/ pc = "Success" /\ exit_code = 0 /\ FullReport
           \/ pc = "Fail" /\ exit_code = 1 /\ FullReport
           \/ pc = "Fatal" /\ exit_code = 1 /\ Len(out) = 1

\* C9: once the whole list is processed every entry has exactly one message
\* in exactly one of the four categories (the three lists hold as many
\* messages as there are entries, duplicates included), and two entries with
\* the same method and mean get the same category wherever they stand.
C9_OneCategoryEach ==
    pc \in {"Reporting", "Fail", "Success"} =>
        /\ Len(classified) = Len(benchmarks)
        /\ \A k \in Processed :
              classified[k] \in {"Regression", "SlowerWithinThreshold",
                                 "Improvement", "NewBenchmark"}
        /\ Len(regressions) = CountOf({"Regression"})
        /\ Len(improvements) = CountOf(WithinCats)
        /\ Len(new_benchmarks) = CountOf({"NewBenchmark"})
        /\ Len(regressions) + Len(improvements) + Len(new_benchmarks)
              = Len(benchmarks)
        /\ \A i \in 1..Len(regressions) : regressions[i].kind = "regression"
        /\ \A i \in 1..Len(improvements) :
              improvements[i].kind \in {"slower (within threshold)",
                                        "faster (improvement)"}
        /\ \A i \in 1..Len(new_benchmarks) : new_benchmarks[i].kind = "new benchmark"
        /\ \A j, k \in Processed :
              (benchmarks[j].method = benchmarks[k].method
                  /\ MeanAt(j) = MeanAt(k)) => classified[j] = classified[k]

C9_Witness ==
    /\ pc = "Fail"
    /\ Len(benchmarks) = 3
    /\ benchmarks[1] = benchmarks[3]
    /\ benchmarks[1] # benchmarks[2]
    /\ classified[1] = "Regression"
    /\ classified[2] = "Improvement"

\* C10: a run that reports prints the banner, then the within-threshold
\* section, then the new-benchmark section, then either the regression
\* section and a closing rule or the "all within threshold" line; a header
\* is printed exactly when its section has messages; each section lists its
\* messages in input order; and the "all within threshold" line is printed
\* if and only if nothing regressed.
C10_ReportOrder ==
    Reported =>
        /\ FullReport
        /\ \A i \in BodyIdx : Rank(Rep[i]) # 0
        /\ \A i, j \in BodyIdx :
              i < j => /\ Rank(Rep[i]) <= Rank(Rep[j])
                       /\ Rank(Rep[i]) = Rank(Rep[j]) => Rank(Rep[i]) % 2 = 0
        /\ (\E i \in BodyIdx : Rank(Rep[i]) = 1) <=> CountOf(WithinCats) > 0
        /\ (\E i \in BodyIdx : Rank(Rep[i]) = 3) <=> CountOf({"NewBenchmark"}) > 0
        /\ (\E i \in BodyIdx : Rank(Rep[i]) = 5) <=> SomeRegression
        /\ (\E i \in BodyIdx : Rank(Rep[i]) = 7) <=> ~ SomeRegression
        /\ \A i \in BodyIdx :
              Rank(Rep[i]) = 5 => Rep[i].msg.pct = regression_threshold
        /\ Printed(2) = Expected(WithinCats)
        /\ Printed(4) = Expected({"NewBenchmark"})
        /\ Printed(6) = Expected({"Regression"})
        /\ (pc = "Success") <=> ~ SomeRegression

C10_Witness ==
    /\ pc = "Fail"
    /\ Len(improvements) = 1
    /\ Len(new_benchmarks) = 1
    /\ Len(regressions) = 1

====
